---- MODULE Spec2Model ----
(***************************************************************************)
(* Delta writer (deltaWriter) and delta applier (ApplyDelta) of tar-diff.  *)
(* The writer's verbs serialise operations into a zstd stream; ApplyDelta  *)
(* replays the stream against a tree of old files.                         *)
(***************************************************************************)
EXTENDS Integers, Sequences, FiniteSets, TLC

\* ------------------------------------------------------------------------
\* Bounds of the model
\* ------------------------------------------------------------------------
\* number of verb calls made on one deltaWriter before Close
MaxVerbs == 3
\* number of pieces (single bytes or whole varints) of a hand-made op stream
MaxPieces == 3
\* the chunk size the model runs with (the program's is 4 MiB)
ScaledChunkSize == 3

\* ------------------------------------------------------------------------
\* uint64 arithmetic.  A uint64 is kept as three limbs <<l0, l1, l2>> of
\* 21, 21 and 22 bits (value l0 + l1*2^21 + l2*2^42), so that the full
\* 64-bit width is kept with numbers TLC can hold.
\* ------------------------------------------------------------------------
Limb == 2^21

U64(n) == <<n % Limb, n \div Limb, 0>>

U64Zero == <<0, 0, 0>>
\* 2^63 and 2^64 - 1
U64SignBit == <<0, 0, Limb>>
U64Max == <<Limb - 1, Limb - 1, 2 * Limb - 1>>

\* the value fits in the low limb (below 2^21)
IsSmall(x) == x[2] = 0 /\ x[3] = 0

\* uint64 addition, wrapping modulo 2^64
U64Add(a, b) ==
    LET s0 == a[1] + b[1]
        s1 == a[2] + b[2] + (s0 \div Limb)
        s2 == a[3] + b[3] + (s1 \div Limb)
    IN  <<s0 % Limb, s1 % Limb, s2 % (2 * Limb)>>

\* x >> 7
U64Shr7(x) ==
    << (x[1] \div 128) + (x[2] % 128) * 16384,
       (x[2] \div 128) + (x[3] % 128) * 16384,
       x[3] \div 128 >>

\* uint64(g) << (7 * i), truncated to 64 bits, for a 7-bit group g
Pow128(k) == IF k = 0 THEN 1 ELSE IF k = 1 THEN 128 ELSE IF k = 2 THEN 16384 ELSE Limb

U64ShlGroup(g, i) ==
    IF i < 3 THEN <<g * Pow128(i), 0, 0>>
    ELSE IF i < 6 THEN <<0, g * Pow128(i - 3), 0>>
    ELSE IF i < 9 THEN <<0, 0, g * Pow128(i - 6)>>
    ELSE IF i = 9 THEN <<0, 0, (g % 2) * Limb>>
    ELSE U64Zero

\* int64(x) < 0: bit 63 is set
Int64Negative(x) == x[3] >= Limb

\* ------------------------------------------------------------------------
\* Constants of the format
\* ------------------------------------------------------------------------
DeltaOpData == 0
DeltaOpOpen == 1
DeltaOpCopy == 2
DeltaOpAddData == 3
DeltaOpSeek == 4

\* the flush threshold of the literal buffer
deltaDataChunkSize == ScaledChunkSize

\* "tardf1\n" and a zero byte
deltaHeader == <<116, 97, 114, 100, 102, 49, 10, 0>>

MaxVarintLen64 == 10

\* ------------------------------------------------------------------------
\* encoding/binary varints
\* ------------------------------------------------------------------------
RECURSIVE PutUvarint(_)
PutUvarint(x) ==
    IF ~IsSmall(x) \/ x[1] >= 128
    THEN <<(x[1] % 128) + 128>> \o PutUvarint(U64Shr7(x))
    ELSE <<x[1]>>

\* ReadUvarint on the bytes of s from index p (1-based) on; i bytes have been
\* taken and x accumulated.  Result: value, bytes consumed, error.
RECURSIVE ReadUvarintFrom(_, _, _, _)
ReadUvarintFrom(s, p, i, x) ==
    IF i >= MaxVarintLen64 THEN [val |-> x, n |-> i, err |-> "overflow"]
    ELSE IF p + i > Len(s)
    THEN [val |-> x, n |-> i, err |-> IF i > 0 THEN "unexpectedEOF" ELSE "EOF"]
    ELSE LET b == s[p + i] IN
         IF b < 128
         THEN IF i = MaxVarintLen64 - 1 /\ b > 1
              THEN [val |-> x, n |-> i + 1, err |-> "overflow"]
              ELSE [val |-> U64Add(x, U64ShlGroup(b, i)), n |-> i + 1, err |-> "nil"]
         ELSE ReadUvarintFrom(s, p, i + 1, U64Add(x, U64ShlGroup(b % 128, i)))

ReadUvarint(s, p) == ReadUvarintFrom(s, p, 0, U64Zero)

\* ------------------------------------------------------------------------
\* Byte strings
\* ------------------------------------------------------------------------
Min(a, b) == IF a < b THEN a ELSE b

\* a nil []byte, as opposed to an empty one
NilData == <<-1>>

\* bytes s[from+1 .. from+n] (0-based offset from), as many as there are
Slice(s, from, n) ==
    IF from >= Len(s) \/ n <= 0 THEN <<>>
    ELSE SubSeq(s, from + 1, Min(Len(s), from + n))

\* ------------------------------------------------------------------------
\* deltaWriter.  The methods are operators on a writer state
\*   s = [d |-> the deltaWriter struct, z |-> the zstd encoder behind
\*        d.writer, ops |-> the operations written so far]
\* and return [s |-> the state after the call, err |-> whether the call
\* returned an error].
\* z.in is what the encoder was given, z.fail the number of Write calls that
\* succeed before the underlying writer starts to fail (-1: never fails),
\* z.closes the number of Close calls the encoder received.
\* ------------------------------------------------------------------------
newDeltaWriter(fail) ==
    [d |-> [writer |-> "open", buffer |-> <<>>, currentFile |-> <<>>,
            currentPos |-> U64Zero],
     z |-> [under |-> deltaHeader, in |-> <<>>, fail |-> fail, closed |-> FALSE,
            closes |-> 0],
     ops |-> <<>>]

\* zstd.Encoder.Write
EncoderWrite(s, p) ==
    IF s.z.fail = 0
    THEN [s |-> s, err |-> TRUE]
    ELSE [s |-> [s EXCEPT !.z.in = @ \o p,
                          !.z.fail = IF @ > 0 THEN @ - 1 ELSE @],
          err |-> FALSE]

\* zstd.Encoder.Close
EncoderClose(s) ==
    IF s.z.fail = 0
    THEN [s |-> [s EXCEPT !.z.closes = @ + 1], err |-> TRUE]
    ELSE [s |-> [s EXCEPT !.z.closed = TRUE, !.z.closes = @ + 1], err |-> FALSE]

writeOp(s, op, size, data) ==
    LET r1 == EncoderWrite(s, <<op>> \o PutUvarint(size))
        r2 == IF data # NilData THEN EncoderWrite(r1.s, data) ELSE r1
    IN  IF r1.err THEN r1
        ELSE IF r2.err THEN r2
        ELSE [s |-> [r2.s EXCEPT !.ops = Append(@, [op |-> op, size |-> size, data |-> data])],
              err |-> FALSE]

\* FlushBuffer that forgets to truncate the buffer
FlushBuffer_KeepBuffer(s) ==
    IF Len(s.d.buffer) = 0
    THEN [s |-> s, err |-> FALSE]
    ELSE writeOp(s, DeltaOpData, U64(Len(s.d.buffer)), s.d.buffer)

FlushBuffer(s) ==
    IF Len(s.d.buffer) = 0
    THEN [s |-> s, err |-> FALSE]
    ELSE LET r == writeOp(s, DeltaOpData, U64(Len(s.d.buffer)), s.d.buffer)
         IN  [s |-> [r.s EXCEPT !.d.buffer = <<>>], err |-> r.err]

\* Close without the test for a writer already released
Close_NoNilCheck(s) ==
    LET r == EncoderClose(s)
    IN  [s |-> [r.s EXCEPT !.d.writer = "nil"], err |-> r.err]

Close(s) ==
    IF s.d.writer = "nil"
    THEN [s |-> s, err |-> FALSE]
    ELSE LET r == EncoderClose(s)
         IN  [s |-> [r.s EXCEPT !.d.writer = "nil"], err |-> r.err]

\* WriteContent that flushes only above the chunk size
WriteContent_FlushAbove(s, data) ==
    LET s1 == [s EXCEPT !.d.buffer = @ \o data]
    IN  IF Len(s1.d.buffer) > deltaDataChunkSize
        THEN FlushBuffer(s1)
        ELSE [s |-> s1, err |-> FALSE]

WriteContent(s, data) ==
    LET s1 == [s EXCEPT !.d.buffer = @ \o data]
    IN  IF Len(s1.d.buffer) >= deltaDataChunkSize
        THEN FlushBuffer(s1)
        ELSE [s |-> s1, err |-> FALSE]

\* SetCurrentFile without the test for the current file
SetCurrentFile_Always(s, filename) ==
    LET r1 == FlushBuffer(s)
        r2 == writeOp(r1.s, DeltaOpOpen, U64(Len(filename)), filename)
    IN  IF r1.err THEN r1
        ELSE IF r2.err THEN r2
        ELSE [s |-> [r2.s EXCEPT !.d.currentFile = filename,
                                 !.d.currentPos = U64Zero],
              err |-> FALSE]

SetCurrentFile(s, filename) ==
    IF s.d.currentFile # filename
    THEN LET r1 == FlushBuffer(s)
             r2 == writeOp(r1.s, DeltaOpOpen, U64(Len(filename)), filename)
         IN  IF r1.err THEN r1
             ELSE IF r2.err THEN r2
             ELSE [s |-> [r2.s EXCEPT !.d.currentFile = filename,
                                      !.d.currentPos = U64Zero],
                   err |-> FALSE]
    ELSE [s |-> s, err |-> FALSE]

\* Seek that records the position before it writes
Seek_SetFirst(s, pos) ==
    IF s.d.currentPos = pos
    THEN [s |-> s, err |-> FALSE]
    ELSE LET s1 == [s EXCEPT !.d.currentPos = pos]
             r1 == FlushBuffer(s1)
             r2 == writeOp(r1.s, DeltaOpSeek, pos, NilData)
         IN  IF r1.err THEN r1 ELSE r2

Seek(s, pos) ==
    IF s.d.currentPos = pos
    THEN [s |-> s, err |-> FALSE]
    ELSE LET r1 == FlushBuffer(s)
             r2 == writeOp(r1.s, DeltaOpSeek, pos, NilData)
         IN  IF r1.err THEN r1
             ELSE IF r2.err THEN r2
             ELSE [s |-> [r2.s EXCEPT !.d.currentPos = pos], err |-> FALSE]

\* SeekForward that writes the distance instead of the position
SeekForward_Relative(s, pos) ==
    LET s1 == [s EXCEPT !.d.currentPos = U64Add(@, pos)]
        r1 == FlushBuffer(s1)
        r2 == writeOp(r1.s, DeltaOpSeek, pos, NilData)
    IN  IF r1.err THEN r1 ELSE r2

SeekForward(s, pos) ==
    LET s1 == [s EXCEPT !.d.currentPos = U64Add(@, pos)]
        r1 == FlushBuffer(s1)
        r2 == writeOp(r1.s, DeltaOpSeek, r1.s.d.currentPos, NilData)
    IN  IF r1.err THEN r1 ELSE r2

\* CopyFile that does not advance the tracked position
CopyFile_NoAdvance(s, size) ==
    LET r1 == FlushBuffer(s)
    IN  IF r1.err THEN r1 ELSE writeOp(r1.s, DeltaOpCopy, size, NilData)

CopyFile(s, size) ==
    LET r1 == FlushBuffer(s)
        r2 == writeOp(r1.s, DeltaOpCopy, size, NilData)
    IN  IF r1.err THEN r1
        ELSE IF r2.err THEN r2
        ELSE [s |-> [r2.s EXCEPT !.d.currentPos = U64Add(@, size)], err |-> FALSE]

WriteAddContent(s, data) ==
    LET r1 == FlushBuffer(s)
        size == U64(Len(data))
        r2 == writeOp(r1.s, DeltaOpAddData, size, data)
    IN  IF r1.err THEN r1
        ELSE IF r2.err THEN r2
        ELSE [s |-> [r2.s EXCEPT !.d.currentPos = U64Add(@, size)], err |-> FALSE]

CopyFileAt(s, offset, size) ==
    LET r1 == Seek(s, offset)
    IN  IF r1.err THEN r1 ELSE CopyFile(r1.s, size)

WriteOldFile(s, filename, size) ==
    LET r1 == SetCurrentFile(s, filename)
        r2 == Seek(r1.s, U64Zero)
    IN  IF r1.err THEN r1
        ELSE IF r2.err THEN r2
        ELSE CopyFile(r2.s, size)

Write(s, data) == WriteContent(s, data)

\* ------------------------------------------------------------------------
\* The old files.  A tree maps file names (byte strings) to contents; the
\* empty name resolves to the extraction root itself, a directory.
\* ------------------------------------------------------------------------
NameA == <<97>>
NameB == <<98>>

Tree1 == (NameA :> <<10, 250, 0>>) @@ (NameB :> <<7, 200>>)
Tree2 == (NameA :> <<104, 119>>)
Trees == {Tree1, Tree2}

\* os.Open(extractedDir + "/" + name): the handle table with the new handle
\* appended, or an error.  A handle is [name, dir, pos, open].
osOpen(fds, tree, name) ==
    IF name \in DOMAIN tree
    THEN [fds |-> Append(fds, [name |-> name, dir |-> FALSE, pos |-> U64Zero, open |-> TRUE]),
          file |-> Len(fds) + 1, err |-> FALSE]
    ELSE IF name = <<>>
    THEN [fds |-> Append(fds, [name |-> name, dir |-> TRUE, pos |-> U64Zero, open |-> TRUE]),
          file |-> Len(fds) + 1, err |-> FALSE]
    ELSE [fds |-> fds, file |-> 0, err |-> TRUE]

\* (*os.File).Close; on a nil *os.File it returns an error and does nothing
FileClose(fds, file) ==
    IF file = 0 THEN fds ELSE [fds EXCEPT ![file].open = FALSE]

\* bytes left between the cursor of handle file and the end of its file
FileRemaining(fds, tree, file) ==
    LET h == fds[file]
    IN  IF h.dir \/ ~IsSmall(h.pos) \/ h.pos[1] >= Len(tree[h.name]) THEN 0
        ELSE Len(tree[h.name]) - h.pos[1]

\* reading n (uint64, not negative as int64) bytes from handle file: the
\* bytes delivered, the handle table after it, and whether the read came
\* short (end of file, or a read error on a directory)
FileReadN(fds, tree, file, n) ==
    LET h == fds[file]
        avail == FileRemaining(fds, tree, file)
        k == IF IsSmall(n) THEN Min(n[1], avail) ELSE avail
        data == IF k = 0 THEN <<>> ELSE Slice(tree[h.name], h.pos[1], k)
    IN  [data |-> data,
         fds |-> [fds EXCEPT ![file].pos = U64Add(@, U64(k))],
         short |-> (~IsSmall(n) \/ n[1] > k)]

\* reading n bytes from the op stream buf after pos consumed bytes
StreamReadN(buf, pos, n) ==
    LET avail == Len(buf) - pos
        k == IF IsSmall(n) THEN Min(n[1], avail) ELSE avail
    IN  [data |-> Slice(buf, pos, k), pos |-> pos + k,
         short |-> (~IsSmall(n) \/ n[1] > k)]

\* make([]byte, size) panics when size is over the runtime's maxAlloc (2^48)
MakePanics(size) == size[3] >= 64

\* the add step with the old byte subtracted instead of added
AddBytes_Sub(addBytes, addBytes2) ==
    [i \in 1..Len(addBytes) |-> (addBytes[i] + 256 - addBytes2[i]) % 256]

\* addBytes[i] = addBytes[i] + addBytes2[i], in uint8
AddBytes(addBytes, addBytes2) ==
    [i \in 1..Len(addBytes) |-> (addBytes[i] + addBytes2[i]) % 256]

maybeClose(fds, closer) == FileClose(fds, closer)

\* ------------------------------------------------------------------------
\* ApplyDelta.  The frame of one call is
\*   a = [pc, head, buf, pos, decoder, currentFile, deferred, op, size, dst,
\*        result, nops]
\* head: the first bytes of delta (at most 8), buf: the decompressed rest,
\* pos: bytes of buf consumed through r, decoder: state of the zstd reader,
\* currentFile: index into the handle table (0: nil), deferred: the argument
\* bound by "defer maybeClose(currentFile)", dst: bytes written to dst,
\* op, size: the tag and varint read by the current iteration,
\* result: "none" while running, then "nil", "error" or "panic",
\* nops: operations dispatched by the switch.
\* ------------------------------------------------------------------------
ApplyFrame(head, buf) ==
    [pc |-> "start", head |-> head, buf |-> buf, pos |-> 0, decoder |-> "none",
     currentFile |-> 0, deferred |-> 0, op |-> -1, size |-> U64Zero,
     dst |-> <<>>, result |-> "none", nops |-> 0]

\* leaving ApplyDelta: the deferred calls run, last registered first
ApplyReturn(a, fds, result) ==
    [a |-> [a EXCEPT !.pc = "returned", !.result = result,
                     !.decoder = IF @ = "open" THEN "closed" ELSE @],
     fds |-> IF a.decoder = "open" THEN maybeClose(fds, a.deferred) ELSE fds]

\* ApplyStart that checks only that 8 bytes could be read
ApplyStart_LengthOnly(a, fds) ==
    IF Len(a.head) < Len(deltaHeader) THEN ApplyReturn(a, fds, "error")
    ELSE [a |-> [a EXCEPT !.pc = "loop", !.decoder = "open", !.deferred = a.currentFile],
          fds |-> fds]

\* lines 286-304: header check, decompressor, deferred closes
ApplyStart(a, fds) ==
    IF Len(a.head) < Len(deltaHeader) THEN ApplyReturn(a, fds, "error")
    ELSE IF a.head # deltaHeader THEN ApplyReturn(a, fds, "error")
    ELSE [a |-> [a EXCEPT !.pc = "loop", !.decoder = "open", !.deferred = a.currentFile],
          fds |-> fds]

ApplyOpData(a, fds, size, p) ==
    IF Int64Negative(size)
    THEN [a |-> [a EXCEPT !.pos = p], fds |-> fds]
    ELSE LET rd == StreamReadN(a.buf, p, size)
             a1 == [a EXCEPT !.pos = rd.pos, !.dst = @ \o rd.data]
         IN  IF rd.short THEN ApplyReturn(a1, fds, "error")
             ELSE [a |-> a1, fds |-> fds]

\* Open that does not close the file it replaces
ApplyOpOpen_NoClose(a, fds, tree, size, p) ==
    IF MakePanics(size) THEN ApplyReturn([a EXCEPT !.pos = p], fds, "panic")
    ELSE LET rd == StreamReadN(a.buf, p, size)
             a1 == [a EXCEPT !.pos = rd.pos]
             o == osOpen(fds, tree, rd.data)
             a2 == [a1 EXCEPT !.currentFile = o.file]
         IN  IF rd.short THEN ApplyReturn(a1, fds, "error")
             ELSE IF o.err THEN ApplyReturn(a2, o.fds, "error")
             ELSE [a |-> a2, fds |-> o.fds]

ApplyOpOpen(a, fds, tree, size, p) ==
    IF MakePanics(size) THEN ApplyReturn([a EXCEPT !.pos = p], fds, "panic")
    ELSE LET rd == StreamReadN(a.buf, p, size)
             a1 == [a EXCEPT !.pos = rd.pos]
             fds1 == IF a.currentFile # 0 THEN FileClose(fds, a.currentFile) ELSE fds
             o == osOpen(fds1, tree, rd.data)
             a2 == [a1 EXCEPT !.currentFile = o.file]
         IN  IF rd.short THEN ApplyReturn(a1, fds, "error")
             ELSE IF o.err THEN ApplyReturn(a2, o.fds, "error")
             ELSE [a |-> a2, fds |-> o.fds]

\* Copy that skips the operation when no file is open
ApplyOpCopy_SkipNoFile(a, fds, tree, size, p) ==
    IF a.currentFile = 0 THEN [a |-> [a EXCEPT !.pos = p], fds |-> fds]
    ELSE IF Int64Negative(size) THEN [a |-> [a EXCEPT !.pos = p], fds |-> fds]
    ELSE LET rd == FileReadN(fds, tree, a.currentFile, size)
             a1 == [a EXCEPT !.pos = p, !.dst = @ \o rd.data]
         IN  IF rd.short THEN ApplyReturn(a1, rd.fds, "error")
             ELSE [a |-> a1, fds |-> rd.fds]

ApplyOpCopy(a, fds, tree, size, p) ==
    IF a.currentFile = 0 THEN ApplyReturn([a EXCEPT !.pos = p], fds, "error")
    ELSE IF Int64Negative(size) THEN [a |-> [a EXCEPT !.pos = p], fds |-> fds]
    ELSE LET rd == FileReadN(fds, tree, a.currentFile, size)
             a1 == [a EXCEPT !.pos = p, !.dst = @ \o rd.data]
         IN  IF rd.short THEN ApplyReturn(a1, rd.fds, "error")
             ELSE [a |-> a1, fds |-> rd.fds]

ApplyOpAddData(a, fds, tree, size, p) ==
    IF a.currentFile = 0 THEN ApplyReturn([a EXCEPT !.pos = p], fds, "error")
    ELSE IF MakePanics(size) THEN ApplyReturn([a EXCEPT !.pos = p], fds, "panic")
    ELSE LET rd == StreamReadN(a.buf, p, size)
             a1 == [a EXCEPT !.pos = rd.pos]
             rf == FileReadN(fds, tree, a.currentFile, size)
             a2 == [a1 EXCEPT !.dst = @ \o AddBytes(rd.data, rf.data)]
         IN  IF rd.short THEN ApplyReturn(a1, fds, "error")
             ELSE IF rf.short THEN ApplyReturn(a1, rf.fds, "error")
             ELSE [a |-> a2, fds |-> rf.fds]

ApplyOpSeek(a, fds, size, p) ==
    IF a.currentFile = 0 THEN ApplyReturn([a EXCEPT !.pos = p], fds, "error")
    ELSE IF Int64Negative(size) THEN ApplyReturn([a EXCEPT !.pos = p], fds, "error")
    ELSE [a |-> [a EXCEPT !.pos = p],
          fds |-> [fds EXCEPT ![a.currentFile].pos = size]]

\* the loop with a default case that goes on to the next operation
ApplyStep_SkipUnknown(a, fds, tree) ==
    IF a.pos >= Len(a.buf) THEN ApplyReturn(a, fds, "nil")
    ELSE LET op == a.buf[a.pos + 1]
             v == ReadUvarint(a.buf, a.pos + 2)
             p == a.pos + 1 + v.n
             a1 == [a EXCEPT !.op = op, !.size = v.val, !.pos = p]
             a0 == [a1 EXCEPT !.nops = @ + 1]
         IN  IF v.err # "nil" THEN ApplyReturn(a1, fds, "error")
             ELSE IF op = DeltaOpData THEN ApplyOpData(a0, fds, v.val, p)
             ELSE IF op = DeltaOpOpen THEN ApplyOpOpen(a0, fds, tree, v.val, p)
             ELSE IF op = DeltaOpCopy THEN ApplyOpCopy(a0, fds, tree, v.val, p)
             ELSE IF op = DeltaOpAddData THEN ApplyOpAddData(a0, fds, tree, v.val, p)
             ELSE IF op = DeltaOpSeek THEN ApplyOpSeek(a0, fds, v.val, p)
             ELSE [a |-> a1, fds |-> fds]

\* one iteration of the loop of lines 306-385
ApplyStep(a, fds, tree) ==
    IF a.pos >= Len(a.buf) THEN ApplyReturn(a, fds, "nil")
    ELSE LET op == a.buf[a.pos + 1]
             v == ReadUvarint(a.buf, a.pos + 2)
             p == a.pos + 1 + v.n
             a1 == [a EXCEPT !.op = op, !.size = v.val, !.pos = p]
             a0 == [a1 EXCEPT !.nops = @ + 1]
         IN  IF v.err # "nil" THEN ApplyReturn(a1, fds, "error")
             ELSE IF op = DeltaOpData THEN ApplyOpData(a0, fds, v.val, p)
             ELSE IF op = DeltaOpOpen THEN ApplyOpOpen(a0, fds, tree, v.val, p)
             ELSE IF op = DeltaOpCopy THEN ApplyOpCopy(a0, fds, tree, v.val, p)
             ELSE IF op = DeltaOpAddData THEN ApplyOpAddData(a0, fds, tree, v.val, p)
             ELSE IF op = DeltaOpSeek THEN ApplyOpSeek(a0, fds, v.val, p)
             ELSE ApplyReturn(a1, fds, "error")

\* ------------------------------------------------------------------------
\* State
\* ------------------------------------------------------------------------
VARIABLES
    d,          \* the deltaWriter: writer, buffer, currentFile, currentPos
    z,          \* the zstd encoder behind d.writer and the file under it
    ops,        \* history: the operations written by writeOp
    tree,       \* the extracted old files
    ncalls,     \* history: number of verb calls made
    last,       \* history: the last call, [verb, arg, rep, err, prev]; rep: it
                \* repeats the call before it, err: it returned an error,
                \* prev: the last call other than Close
    failed,     \* history: some call returned an error
    lits,       \* history: all bytes passed to WriteContent / Write
    expected,   \* history: the bytes the calls so far stand for
    valid,      \* history: the calls so far are a valid plan against tree
    a,          \* the frame of the ApplyDelta call
    fds         \* the handles ApplyDelta got from os.Open

vars == <<d, z, ops, tree, ncalls, last, failed, lits, expected, valid, a, fds>>

St == [d |-> d, z |-> z, ops |-> ops]

\* no call made yet
NoCall == [verb |-> "none", arg |-> <<>>, rep |-> FALSE, err |-> FALSE,
           prev |-> [verb |-> "none", arg |-> <<>>]]

\* ------------------------------------------------------------------------
\* Inputs
\* ------------------------------------------------------------------------
MaxCloses == 2

WriteFailures == {-1, 0, 1, 2}
Literals == {<<1>>, <<2, 3>>}
Names == {<<>>, NameA, NameB}
SeekPositions == {U64Zero, U64(2), U64Max}
SeekDeltas == {U64Zero, U64(1), U64Max}
CopySizes == {U64(1), U64(2), U64Max}
AddContents == {<<5>>, <<9, 1>>}

\* ------------------------------------------------------------------------
\* What a plan stands for: the old bytes of a range, when it is inside
\* the file, and the new bytes an add-delta was computed from
\* ------------------------------------------------------------------------
RangeOK(file, pos, n) ==
    /\ file \in DOMAIN tree
    /\ IsSmall(pos) /\ IsSmall(n)
    /\ pos[1] + n[1] <= Len(tree[file])

OldBytes(file, pos, n) == Slice(tree[file], pos[1], n[1])

NewBytes(old, delta) ==
    [i \in 1..Len(delta) |-> CHOOSE b \in 0..255 : (b + 256 - old[i]) % 256 = delta[i]]

\* ------------------------------------------------------------------------
\* Actions of the writer
\* ------------------------------------------------------------------------
Init ==
    /\ \E f \in WriteFailures :
          LET s == newDeltaWriter(f)
          IN  d = s.d /\ z = s.z /\ ops = s.ops
    /\ tree \in Trees
    /\ ncalls = 0
    /\ last = NoCall
    /\ failed = FALSE
    /\ lits = <<>>
    /\ expected = <<>>
    /\ valid = TRUE
    /\ a = [ApplyFrame(<<>>, <<>>) EXCEPT !.pc = "idle"]
    /\ fds = <<>>

\* a verb call with result r; ok and bytes say what the call stands for
Call(verb, arg, r, lit, ok, bytes) ==
    /\ a.pc = "idle" /\ d.writer = "open" /\ ~failed /\ ncalls < MaxVerbs
    /\ d' = r.s.d /\ z' = r.s.z /\ ops' = r.s.ops
    /\ ncalls' = ncalls + 1
    /\ last' = [verb |-> verb, arg |-> arg,
                rep |-> (last.verb = verb /\ last.arg = arg),
                err |-> r.err,
                prev |-> [verb |-> verb, arg |-> arg]]
    /\ failed' = r.err
    /\ lits' = lits \o lit
    /\ valid' = (valid /\ ok)
    /\ expected' = IF valid /\ ok THEN expected \o bytes ELSE expected
    /\ UNCHANGED <<tree, a, fds>>

DoWriteContent ==
    \E data \in Literals :
        Call("WriteContent", data, WriteContent(St, data), data, TRUE, data)

DoWrite ==
    \E data \in {<<>>} :
        Call("Write", data, Write(St, data), data, TRUE, data)

DoSetCurrentFile ==
    \E filename \in Names :
        Call("SetCurrentFile", filename, SetCurrentFile(St, filename), <<>>,
             filename \in DOMAIN tree, <<>>)

DoSeek ==
    \E pos \in SeekPositions :
        Call("Seek", pos, Seek(St, pos), <<>>,
             RangeOK(d.currentFile, pos, U64Zero), <<>>)

DoSeekForward ==
    \E pos \in SeekDeltas :
        Call("SeekForward", pos, SeekForward(St, pos), <<>>,
             RangeOK(d.currentFile, d.currentPos, pos), <<>>)

DoCopyFile ==
    \E size \in CopySizes :
        LET ok == RangeOK(d.currentFile, d.currentPos, size)
        IN  Call("CopyFile", size, CopyFile(St, size), <<>>, ok,
                 IF ok THEN OldBytes(d.currentFile, d.currentPos, size) ELSE <<>>)

DoWriteAddContent ==
    \E data \in AddContents :
        LET size == U64(Len(data))
            ok == RangeOK(d.currentFile, d.currentPos, size)
        IN  Call("WriteAddContent", data, WriteAddContent(St, data), <<>>, ok,
                 IF ok THEN NewBytes(OldBytes(d.currentFile, d.currentPos, size), data)
                 ELSE <<>>)

DoCopyFileAt ==
    \E offset \in {U64(1)}, size \in {U64(1)} :
        LET ok == RangeOK(d.currentFile, offset, size)
        IN  Call("CopyFileAt", <<offset, size>>, CopyFileAt(St, offset, size), <<>>, ok,
                 IF ok THEN OldBytes(d.currentFile, offset, size) ELSE <<>>)

DoWriteOldFile ==
    \E call \in {<<NameA, U64(1)>>, <<<<>>, U64Zero>>} :
        LET filename == call[1]
            size == call[2]
            ok == RangeOK(filename, U64Zero, size)
        IN  Call("WriteOldFile", <<filename, size>>, WriteOldFile(St, filename, size), <<>>, ok,
                 IF ok THEN OldBytes(filename, U64Zero, size) ELSE <<>>)

\* Close, also a second time
DoClose ==
    /\ a.pc = "idle"
    /\ \/ d.writer = "open" /\ last.verb # "Close"
       \/ last.verb = "Close" /\ last.arg[1] < MaxCloses
    /\ LET r == Close(St)
       IN  /\ d' = r.s.d /\ z' = r.s.z /\ ops' = r.s.ops
           /\ failed' = (failed \/ r.err)
           /\ last' = [verb |-> "Close",
                       arg |-> <<IF last.verb = "Close" THEN last.arg[1] + 1 ELSE 1>>,
                       rep |-> (last.verb = "Close"),
                       err |-> r.err,
                       prev |-> last.prev]
    /\ UNCHANGED <<tree, ncalls, lits, expected, valid, a, fds>>

\* ------------------------------------------------------------------------
\* Actions of the applier
\* ------------------------------------------------------------------------
\* ApplyDelta is called on the file the writer produced
CallApplyDelta ==
    /\ a.pc = "idle" /\ z.closed /\ ~failed
    /\ a' = ApplyFrame(z.under, z.in)
    /\ UNCHANGED <<d, z, ops, tree, ncalls, last, failed, lits, expected, valid, fds>>

DoApplyStart ==
    /\ a.pc = "start"
    /\ LET r == ApplyStart(a, fds) IN a' = r.a /\ fds' = r.fds
    /\ UNCHANGED <<d, z, ops, tree, ncalls, last, failed, lits, expected, valid>>

DoApplyStep ==
    /\ a.pc = "loop"
    /\ LET r == ApplyStep(a, fds, tree) IN a' = r.a /\ fds' = r.fds
    /\ UNCHANGED <<d, z, ops, tree, ncalls, last, failed, lits, expected, valid>>

Next ==
    \/ DoWriteContent
    \/ DoWrite
    \/ DoSetCurrentFile
    \/ DoSeek
    \/ DoSeekForward
    \/ DoCopyFile
    \/ DoWriteAddContent
    \/ DoCopyFileAt
    \/ DoWriteOldFile
    \/ DoClose
    \/ CallApplyDelta
    \/ DoApplyStart
    \/ DoApplyStep

Spec == Init /\ [][Next]_vars

\* ------------------------------------------------------------------------
\* ApplyDelta on arbitrary input: a header, then an op stream made of a
\* prefix and up to MaxPieces pieces (single bytes, or whole varints)
\* ------------------------------------------------------------------------
RECURSIVE Flatten(_)
Flatten(ss) == IF ss = <<>> THEN <<>> ELSE Head(ss) \o Flatten(Tail(ss))

Repeat(b, n) == [i \in 1..n |-> b]

Pieces ==
    {<<b>> : b \in {0, 1, 2, 3, 4, 5, 97, 128}}
        \cup {PutUvarint(U64SignBit), PutUvarint(U64Max),
              Repeat(128, 9) \o <<2>>, Repeat(128, 10) \o <<0>>}

\* Open("a"); Open("a") Seek(1)
Prefixes == {<<>>, <<DeltaOpOpen, 1, 97>>, <<DeltaOpOpen, 1, 97, DeltaOpSeek, 1>>}

Streams ==
    {pre \o Flatten(ps) : pre \in Prefixes,
                          ps \in UNION {[1..k -> Pieces] : k \in 0..MaxPieces}}

Heads ==
    {deltaHeader, <<>>, SubSeq(deltaHeader, 1, 7),
     [deltaHeader EXCEPT ![8] = 1], [deltaHeader EXCEPT ![1] = 84]}

\* byte values for which AddData is tried on every pair (old, new)
ByteSample == {0, 1, 3, 9, 10, 15, 127, 128, 250, 255}

InitApply ==
    /\ LET s == newDeltaWriter(-1)
       IN  d = s.d /\ z = s.z /\ ops = s.ops
    /\ ncalls = 0
    /\ last = NoCall
    /\ failed = FALSE
    /\ lits = <<>>
    /\ expected = <<>>
    /\ valid = TRUE
    /\ fds = <<>>
    /\ \/ /\ tree \in Trees
          /\ \E head \in Heads, buf \in Streams : a = ApplyFrame(head, buf)
       \/ \E old \in ByteSample, new \in ByteSample :
             /\ tree = (NameA :> <<old>>)
             /\ a = ApplyFrame(deltaHeader,
                               <<DeltaOpOpen, 1, 97,
                                 DeltaOpAddData, 1, (new + 256 - old) % 256>>)

NextApply ==
    \/ DoApplyStart
    \/ DoApplyStep

SpecApply == InitApply /\ [][NextApply]_vars

\* ------------------------------------------------------------------------
\* Properties
\* ------------------------------------------------------------------------
\* the payloads of the Data operations of a history, concatenated
RECURSIVE DataPayloads(_)
DataPayloads(os) ==
    IF os = <<>> THEN <<>>
    ELSE (IF Head(os).op = DeltaOpData THEN Head(os).data ELSE <<>>)
             \o DataPayloads(Tail(os))

\* C1: round trip.  When ApplyDelta has returned from the stream of a valid
\* plan closed with Close, it returned nil and dst holds exactly the bytes
\* the plan stands for.
RoundTrip ==
    (a.pc = "returned" /\ valid) => (a.result = "nil" /\ a.dst = expected)

\* C2: Close flushes.  After a successful Close every byte passed to
\* WriteContent is in a Data operation on the wire and the buffer is empty.
CloseFlushes ==
    (last.verb = "Close" /\ ~failed) =>
        (d.buffer = <<>> /\ DataPayloads(ops) = lits)

\* C3: handle release.  When ApplyDelta has returned, no handle it opened
\* is still open.
HandlesReleased ==
    a.pc = "returned" => \A h \in 1..Len(fds) : ~fds[h].open

\* C4: missing context.  An iteration that meets a Copy, AddData or Seek tag
\* while currentFile is nil returns an error, writes nothing to dst, and is
\* the last iteration.
MissingContextFails ==
    [][(/\ a.pc = "loop"
        /\ a.currentFile = 0
        /\ a.pos < Len(a.buf)
        /\ a.buf[a.pos + 1] \in {DeltaOpCopy, DeltaOpAddData, DeltaOpSeek})
       => (/\ a'.pc = "returned"
           /\ a'.result = "error"
           /\ a'.dst = a.dst
           /\ fds' = fds)]_vars

MissingContextWitness ==
    /\ a.pc = "returned" /\ a.result = "error"
    /\ a.op = DeltaOpCopy /\ a.size = U64(1)
    /\ a.nops = 1 /\ fds = <<>> /\ a.dst = <<>>
    /\ a.pos < Len(a.buf)

\* C5: header rejection.  Once ApplyDelta has looked at a header that is
\* not the magic, it has returned an error without creating the
\* decompressor, dispatching an operation, opening a file or writing.
HeaderRejected ==
    (a.pc \notin {"idle", "start"} /\ a.head # deltaHeader) =>
        /\ a.pc = "returned" /\ a.result = "error"
        /\ a.decoder = "none"
        /\ a.nops = 0 /\ a.pos = 0
        /\ fds = <<>>
        /\ a.dst = <<>>

HeaderRejectedWitness ==
    /\ a.pc = "returned" /\ a.result = "error"
    /\ Len(a.head) = Len(deltaHeader) /\ a.head # deltaHeader
    /\ Len(a.buf) > 0

\* an op stream made of whole operations only: every tag has a complete
\* varint and, for Data, Open and AddData, its whole payload
RECURSIVE WholeOps(_, _)
WholeOps(buf, pos) ==
    IF pos >= Len(buf) THEN TRUE
    ELSE LET v == ReadUvarint(buf, pos + 2)
             p == pos + 1 + v.n
         IN  /\ v.err = "nil"
             /\ IF buf[pos + 1] \in {DeltaOpData, DeltaOpOpen, DeltaOpAddData}
                THEN /\ IsSmall(v.val)
                     /\ p + v.val[1] <= Len(buf)
                     /\ WholeOps(buf, p + v.val[1])
                ELSE WholeOps(buf, p)

\* C6: truncation is fatal.  ApplyDelta returns nil only when the input
\* ended at an operation boundary.
TruncationFatal ==
    (a.pc = "returned" /\ a.result = "nil") => WholeOps(a.buf, 0)

\* C7: AddData arithmetic.  An iteration that meets AddData with count N and
\* payload A while the current file has N bytes B at its cursor appends
\* exactly the N bytes (A[i] + B[i]) mod 256 to dst and moves the cursor by
\* N; so a payload of (new - old) mod 256 gives back new.
AddDataArithmetic ==
    [][(/\ a.pc = "loop"
        /\ a.pos < Len(a.buf)
        /\ a.buf[a.pos + 1] = DeltaOpAddData
        /\ a.currentFile # 0
        /\ LET v == ReadUvarint(a.buf, a.pos + 2) IN
           /\ v.err = "nil"
           /\ IsSmall(v.val)
           /\ a.pos + 1 + v.n + v.val[1] <= Len(a.buf)
           /\ ~fds[a.currentFile].dir
           /\ IsSmall(fds[a.currentFile].pos)
           /\ fds[a.currentFile].pos[1] + v.val[1]
                  <= Len(tree[fds[a.currentFile].name]))
       => (LET v == ReadUvarint(a.buf, a.pos + 2)
               N == v.val[1]
               p == a.pos + 1 + v.n
               c == fds[a.currentFile].pos[1]
               B == tree[fds[a.currentFile].name]
               n0 == Len(a.dst)
           IN  /\ a'.pc = "loop"
               /\ a'.pos = p + N
               /\ Len(a'.dst) = n0 + N
               /\ SubSeq(a'.dst, 1, n0) = a.dst
               /\ \A i \in 1..N :
                     /\ a'.dst[n0 + i] \in 0..255
                     /\ (a'.dst[n0 + i] + 512 - a.buf[p + i] - B[c + i]) % 256 = 0
                     /\ \A new \in 0..255 :
                           a.buf[p + i] = (new + 256 - B[c + i]) % 256
                               => a'.dst[n0 + i] = new
               /\ fds'[a.currentFile].pos = U64(c + N))]_vars

AddDataWitness ==
    /\ a.pc = "returned" /\ a.result = "nil"
    /\ a.op = DeltaOpAddData
    /\ tree[NameA] = <<250>>
    /\ a.dst = <<3>>
    /\ fds[a.currentFile].pos = U64(1)

\* C8: elision idempotence.  A SetCurrentFile or Seek call that repeats the
\* call before it writes nothing and leaves the writer as it was.
ElisionIdempotent ==
    [][(/\ ncalls' = ncalls + 1
        /\ last'.rep
        /\ last'.verb \in {"SetCurrentFile", "Seek"})
       => (d' = d /\ z' = z /\ ops' = ops /\ ~failed')]_vars

ElisionWitness ==
    /\ last.rep /\ last.verb = "SetCurrentFile"
    /\ ops # <<>> /\ ops[Len(ops)].op = DeltaOpOpen
    /\ Len(ops) = 2

\* C9: literal conservation and chunk flush.  While no call has failed, the
\* Data payloads written so far followed by the buffer are the bytes given
\* to WriteContent; and a WriteContent that brings the buffer to the chunk
\* size writes it as one Data operation and leaves it empty.
LiteralConservation ==
    /\ [](~failed => DataPayloads(ops) \o d.buffer = lits)
    /\ [][(/\ ncalls' = ncalls + 1
           /\ last'.verb \in {"WriteContent", "Write"}
           /\ ~failed'
           /\ Len(d.buffer) + Len(last'.arg) >= deltaDataChunkSize)
          => (/\ d'.buffer = <<>>
              /\ ops' = Append(ops, [op |-> DeltaOpData,
                                     size |-> U64(Len(d.buffer) + Len(last'.arg)),
                                     data |-> d.buffer \o last'.arg]))]_vars

ChunkFlushWitness ==
    /\ last.verb = "WriteContent" /\ last.arg # <<>> /\ ~failed
    /\ d.buffer = <<>>
    /\ Len(ops) = 2 /\ ops[2].op = DeltaOpData
    /\ Len(ops[2].data) = deltaDataChunkSize

\* C10 as claimed: the buffer never holds more than the chunk size and no
\* Data operation carries more than the chunk size.
BufferAtMostChunk ==
    /\ Len(d.buffer) <= deltaDataChunkSize
    /\ \A i \in 1..Len(ops) :
          ops[i].op = DeltaOpData => Len(ops[i].data) <= deltaDataChunkSize

\* C10, amended: between calls the buffer holds fewer bytes than the chunk
\* size; a Data operation written by WriteContent carries fewer than the
\* chunk size plus the bytes of that call, one written by another verb
\* fewer than the chunk size.
BufferBelowChunk ==
    /\ [](Len(d.buffer) < deltaDataChunkSize)
    /\ [][\A i \in (Len(ops) + 1)..Len(ops') :
             ops'[i].op = DeltaOpData =>
                 IF last'.verb \in {"WriteContent", "Write"}
                 THEN Len(ops'[i].data) < deltaDataChunkSize + Len(last'.arg)
                 ELSE Len(ops'[i].data) < deltaDataChunkSize]_vars

BufferOverChunkWitness ==
    /\ ~failed
    /\ Len(d.buffer) < deltaDataChunkSize
    /\ \E i \in 1..Len(ops) :
          ops[i].op = DeltaOpData /\ Len(ops[i].data) > deltaDataChunkSize

\* C11: WriteOldFile replays as the start of the file.  When the plan ends
\* with WriteOldFile(name, size), name can be opened and holds size bytes,
\* and the replay has come to the last operation written (the Copy), that
\* iteration appends exactly bytes [0, size) of name to dst.
WriteOldFileReplays ==
    [][(/\ a.pc = "loop"
        /\ last.prev.verb = "WriteOldFile"
        /\ ops # <<>>
        /\ a.nops = Len(ops) - 1
        /\ LET name == last.prev.arg[1]
               size == last.prev.arg[2]
           IN  \/ name \in DOMAIN tree /\ IsSmall(size) /\ size[1] <= Len(tree[name])
               \/ name = <<>> /\ size = U64Zero)
       => (LET name == last.prev.arg[1]
               size == last.prev.arg[2]
           IN  /\ a'.pc = "loop"
               /\ a'.op = DeltaOpCopy
               /\ a'.dst = a.dst \o (IF name = <<>> THEN <<>>
                                     ELSE Slice(tree[name], 0, size[1])))]_vars

\* C12: Close is idempotent.  A Close that follows a Close returns nil,
\* writes nothing and leaves the writer and the released encoder untouched.
CloseIdempotent ==
    [][(/\ last.verb = "Close"
        /\ last'.verb = "Close"
        /\ last'.arg # last.arg)
       => (~last'.err /\ d' = d /\ z' = z /\ ops' = ops)]_vars

SecondCloseWitness ==
    /\ last.verb = "Close" /\ last.arg = <<2>> /\ ~last.err
    /\ d.writer = "nil"
    /\ z.closed /\ z.closes = 1
    /\ ops # <<>>

\* C13: unrecognized tag.  An iteration that meets a tag other than 0..4
\* returns an error, writes nothing to dst, and is the last iteration.
UnknownTagFails ==
    [][(/\ a.pc = "loop"
        /\ a.pos < Len(a.buf)
        /\ a.buf[a.pos + 1] \notin {DeltaOpData, DeltaOpOpen, DeltaOpCopy,
                                    DeltaOpAddData, DeltaOpSeek})
       => (/\ a'.pc = "returned"
           /\ a'.result = "error"
           /\ a'.dst = a.dst
           /\ fds' = fds)]_vars

UnknownTagWitness ==
    /\ a.pc = "returned" /\ a.result = "error"
    /\ a.op = 5 /\ a.size = U64(1)
    /\ a.currentFile # 0
    /\ a.pos < Len(a.buf)

\* the first operation of a history that is not Data is an Open of a
\* non-empty name
RECURSIVE StartsWithOpen(_)
StartsWithOpen(os) ==
    IF os = <<>> THEN FALSE
    ELSE IF Head(os).op = DeltaOpData THEN StartsWithOpen(Tail(os))
    ELSE Head(os).op = DeltaOpOpen /\ Head(os).data # <<>>

\* C14: the tracker mirrors the cursor.  When the replay of a plan that
\* began with SetCurrentFile on a non-empty name has run through (every
\* read found its bytes, no Copy asks for 2^63 bytes or more), the file
\* ApplyDelta has open is the writer's currentFile and its cursor is the
\* writer's currentPos.  Plans end after any call, so this holds after each.
TrackerMirrorsCursor ==
    (/\ a.pc = "returned" /\ a.result = "nil"
     /\ StartsWithOpen(ops)
     /\ \A i \in 1..Len(ops) :
           ops[i].op = DeltaOpCopy => ~Int64Negative(ops[i].size))
    => (/\ a.currentFile # 0
        /\ fds[a.currentFile].name = d.currentFile
        /\ fds[a.currentFile].pos = d.currentPos)

ElidedSeekWitness ==
    /\ a.pc = "returned" /\ a.result = "nil"
    /\ last.prev.verb = "Seek" /\ last.prev.arg = U64(2)
    /\ d.currentPos = U64(2)
    /\ ops[Len(ops)].op = DeltaOpCopy
    /\ fds[a.currentFile].pos = U64(2)

\* C15: single handle.  Only the handle in currentFile can be open, so at
\* most one is; an Open closes the handle it replaces, and when os.Open
\* fails ApplyDelta returns an error with no handle open.
SingleHandle ==
    /\ \A h \in 1..Len(fds) : fds[h].open => h = a.currentFile
    /\ Cardinality({h \in 1..Len(fds) : fds[h].open}) <= 1
    /\ (a.op = DeltaOpOpen /\ a.currentFile = 0 /\ a.nops > 0) =>
           /\ a.pc = "returned" /\ a.result \in {"error", "panic"}
           /\ \A h \in 1..Len(fds) : ~fds[h].open

FailedOpenWitness ==
    /\ a.pc = "returned" /\ a.result = "error"
    /\ a.op = DeltaOpOpen /\ a.size = U64(1) /\ a.nops = 2
    /\ a.pos = Len(a.buf)
    /\ a.currentFile = 0
    /\ Len(fds) = 1 /\ ~fds[1].open

\* C16: SetCurrentFile ensures the start of the file.  After a successful
\* SetCurrentFile(filename), currentFile is filename and currentPos is 0.
SetCurrentFileAtStart ==
    (last.verb = "SetCurrentFile" /\ ~last.err) =>
        (d.currentFile = last.arg /\ d.currentPos = U64Zero)

\* C17: unsigned varints.  An iteration that meets Data or Copy with varint
\* n either appends exactly n bytes to dst or ends the pass with a failure;
\* one that meets Seek either leaves the cursor at n or ends the pass with
\* a failure.
UnsignedVarint ==
    [][(/\ a.pc = "loop"
        /\ a.pos < Len(a.buf)
        /\ a.buf[a.pos + 1] \in {DeltaOpData, DeltaOpCopy, DeltaOpSeek}
        /\ ReadUvarint(a.buf, a.pos + 2).err = "nil")
       => (LET n == ReadUvarint(a.buf, a.pos + 2).val
           IN  \/ a'.pc = "returned" /\ a'.result \in {"error", "panic"}
               \/ /\ a'.pc = "loop"
                  /\ IF a.buf[a.pos + 1] = DeltaOpSeek
                     THEN /\ fds'[a'.currentFile].pos = n
                          /\ a'.dst = a.dst
                     ELSE /\ IsSmall(n)
                          /\ Len(a'.dst) = Len(a.dst) + n[1])]_vars

\* C18: SeekForward writes an absolute Seek.  A successful SeekForward(delta)
\* at tracked position p writes the pending literals as a Data operation,
\* then exactly one Seek carrying p + delta (in uint64), and leaves the
\* tracked position at p + delta.
SeekForwardAbsolute ==
    [][(/\ ncalls' = ncalls + 1
        /\ last'.verb = "SeekForward"
        /\ ~last'.err)
       => (LET t == U64Add(d.currentPos, last'.arg)
               flush == IF d.buffer = <<>> THEN <<>>
                        ELSE <<[op |-> DeltaOpData, size |-> U64(Len(d.buffer)),
                                data |-> d.buffer]>>
               bytes == IF d.buffer = <<>> THEN <<>>
                        ELSE <<DeltaOpData>> \o PutUvarint(U64(Len(d.buffer))) \o d.buffer
           IN  /\ d'.currentPos = t
               /\ d'.currentFile = d.currentFile
               /\ d'.buffer = <<>>
               /\ ops' = ops \o flush
                             \o <<[op |-> DeltaOpSeek, size |-> t, data |-> NilData]>>
               /\ z'.in = z.in \o bytes \o <<DeltaOpSeek>> \o PutUvarint(t))]_vars

SeekForwardWitness ==
    /\ last.verb = "SeekForward" /\ last.arg = U64(1) /\ ~last.err
    /\ d.currentPos = U64(3)
    /\ Len(ops) = 3
    /\ ops[2].op = DeltaOpData
    /\ ops[3] = [op |-> DeltaOpSeek, size |-> U64(3), data |-> NilData]

\* C19: a failed call keeps the tracker.  When SetCurrentFile, Seek,
\* SeekForward, CopyFile or WriteAddContent returns an error, currentFile
\* and currentPos are what they were before the call.
FailedCallKeepsState ==
    [][(/\ ncalls' = ncalls + 1
        /\ last'.err
        /\ last'.verb \in {"SetCurrentFile", "Seek", "SeekForward", "CopyFile",
                           "WriteAddContent"})
       => (d'.currentFile = d.currentFile /\ d'.currentPos = d.currentPos)]_vars
\* C19 as it holds: a failed SetCurrentFile, Seek, CopyFile or
\* WriteAddContent leaves currentFile and currentPos as they were; a failed
\* SeekForward(delta) leaves currentFile as it was and currentPos already
\* advanced by delta.
FailedCallTracker ==
    [][(ncalls' = ncalls + 1 /\ last'.err) =>
          /\ last'.verb \in {"SetCurrentFile", "Seek", "CopyFile", "WriteAddContent"}
                => (d'.currentFile = d.currentFile /\ d'.currentPos = d.currentPos)
          /\ last'.verb = "SeekForward"
                => /\ d'.currentFile = d.currentFile
                   /\ d'.currentPos = U64Add(d.currentPos, last'.arg)]_vars

FailedSeekForwardWitness ==
    /\ last.verb = "SeekForward" /\ last.err
    /\ last.arg = U64(1)
    /\ d.currentPos = U64(1)
    /\ ops = <<>>

====
